---- MODULE Spec2Model ----
(***************************************************************************)
(* OrderStatusManager of app.py / app1.py: an in-memory order store with   *)
(* four operations (get_total_price, get_order_status, initiate_return,    *)
(* cancel_return).  The two files carry the same class, line for line.     *)
(*                                                                         *)
(* Representation.  A Python str that the code takes apart (a price such   *)
(* as "490.00$") is a sequence of one-character strings; a str the code    *)
(* only stores, compares or interpolates (a status, an order id, a reason) *)
(* is a TLA+ string.  A returned narration is the sequence of the pieces   *)
(* its f-string concatenates.  A float holding a price is the integer      *)
(* number of hundredths it stands for; the one place where the binary      *)
(* double decides the outcome (a half cent under the .2f format) is        *)
(* HalfCentRoundsUp.  A date is its proleptic Gregorian ordinal.           *)
(***************************************************************************)
EXTENDS Integers, Sequences, FiniteSets, TLC

VARIABLES
  order_statuses,   \* self.order_statuses : order id -> status
  order_price,      \* self.order_price    : order id -> price string
  order_shipped,    \* self.order_shipped  : order id -> ship date "%d/%m/%y" fields
  original_prices,  \* self.original_prices: copy of order_price at construction
  today,            \* what datetime.date.today() returns, as an ordinal
  last_call,        \* the tool call executed in this chat turn: op, order_id, reason
  result,           \* how that call ended: exception raised (or "none") and value returned
  before,           \* history: the four dictionaries as they were when that call began
  returns           \* history: accepted initiate_return calls per order, up to MaxReturns

vars == <<order_statuses, order_price, order_shipped, original_prices, today,
          last_call, result, before, returns>>

-----------------------------------------------------------------------------
(* Bounds of the model *)

\* accepted initiate_return calls explored per order
MaxReturns == 2

\* days the clock advances past StartDay
MaxDays == 24

-----------------------------------------------------------------------------
(* Inputs *)

\* the keys __init__ seeds the dictionaries with
SeededIds == {"12345", "67890", "11223"}

\* faulty variant of ReturnableIds: the list names an id the store does not hold
ReturnableIdsExtra == {"12345", "67890", "11223", "99999"}

\* the ids the hard-coded list of initiate_return names
ReturnableIds == {"12345", "67890", "11223"}

\* order ids a caller passes: the three seeded ones and one that is not in the store
OrderIds == SeededIds \cup {"99999"}

\* reasons a caller passes (free text, the empty string included)
Reasons == {"wrong item", ""}

\* the return window of initiate_return, in days
ReturnWindowDays == 10

-----------------------------------------------------------------------------
(* Strings and numbers *)

Digits == <<"0", "1", "2", "3", "4", "5", "6", "7", "8", "9">>

IsDigit(ch) == \E i \in 1..10 : Digits[i] = ch

DigitVal(ch) == (CHOOSE i \in 1..10 : Digits[i] = ch) - 1

\* str.rstrip(ch): drop every trailing ch
RECURSIVE rstrip(_, _)
rstrip(s, ch) ==
  IF s # <<>> /\ s[Len(s)] = ch THEN rstrip(SubSeq(s, 1, Len(s) - 1), ch) ELSE s

\* position of the first "." of s, or 0
DotAt(s) ==
  IF \E i \in 1..Len(s) : s[i] = "."
  THEN CHOOSE i \in 1..Len(s) : s[i] = "." /\ \A j \in 1..(i - 1) : s[j] # "."
  ELSE 0

IntPart(s) == IF DotAt(s) = 0 THEN s ELSE SubSeq(s, 1, DotAt(s) - 1)

FracPart(s) == IF DotAt(s) = 0 THEN <<>> ELSE SubSeq(s, DotAt(s) + 1, Len(s))

\* value of a sequence of decimal digits
RECURSIVE DigitsVal(_)
DigitsVal(s) ==
  IF s = <<>> THEN 0 ELSE 10 * DigitsVal(SubSeq(s, 1, Len(s) - 1)) + DigitVal(s[Len(s)])

\* float(s) succeeds: digits, then optionally a point and at most two digits
\* (the decimal literals this store ever holds); anything else raises ValueError
FloatOk(s) ==
  /\ IntPart(s) # <<>>
  /\ \A i \in 1..Len(IntPart(s)) : IsDigit(IntPart(s)[i])
  /\ Len(FracPart(s)) <= 2
  /\ \A i \in 1..Len(FracPart(s)) : IsDigit(FracPart(s)[i])

\* float(s), in hundredths
ToFloat(s) ==
  100 * DigitsVal(IntPart(s))
    + (IF Len(FracPart(s)) = 0 THEN 0
       ELSE IF Len(FracPart(s)) = 1 THEN 10 * DigitVal(FracPart(s)[1])
       ELSE DigitsVal(FracPart(s)))

\* decimal digits of a natural number
RECURSIVE NatStr(_)
NatStr(n) ==
  IF n < 10 THEN <<Digits[n + 1]>> ELSE NatStr(n \div 10) \o <<Digits[(n % 10) + 1]>>

\* faulty variant of FormatPrice: the currency sign is put in front, f"${x:.2f}"
FormatPriceSignFirst(c) ==
  <<"$">> \o NatStr(c \div 100) \o <<".", Digits[((c % 100) \div 10) + 1], Digits[(c % 10) + 1]>>

\* f"{x:.2f}$" of a float given in hundredths
FormatPrice(c) ==
  NatStr(c \div 100) \o <<".", Digits[((c % 100) \div 10) + 1], Digits[(c % 10) + 1], "$">>

\* prices p (in hundredths) for which the double p - p * 0.02 lies on the upper
\* side of the half cent it is nearest to, so that .2f rounds it up
HalfCentRoundsUp ==
  {
    125, 175, 225, 325, 425, 475, 675, 725, 825, 1075, 1125, 1175, 1225, 1475,
    1525, 1575, 1625, 1725, 1825, 1875, 1975, 2075, 2175, 2275, 2325, 2425, 2525, 2625,
    2775, 2875, 2975, 3075, 3225, 3325, 3375, 3525, 3675, 3725, 3875, 3925, 4025, 4075,
    4225, 4275, 4375, 4425, 4575, 4625, 4775, 4925, 4975, 5125, 5175, 5275, 5325, 5475,
    5525, 5675, 5825, 5875, 6025, 6175, 6225, 6375, 6425, 6525, 6575, 6675, 6725, 6825,
    6875, 6975, 7125, 7225, 7275, 7375, 7425, 7525, 7675, 7825, 7925, 7975, 8075, 8225,
    8375, 8475, 8525, 8625, 8675, 8775, 8925, 9075, 9175, 9225, 9325, 9375, 9475, 9625,
    9725, 9775, 9875, 9925, 10025, 10175, 10325, 10425, 10475, 10575, 10725, 10875, 10975, 11025,
    11125, 11175, 11275, 11425, 11575, 11675, 11725, 11825, 11875, 11975, 12125, 12225, 12275, 12375,
    12425, 12525, 12675, 12825, 12925, 12975, 13175, 13325, 13475, 13625, 13775, 13825, 13925, 13975,
    14075, 14125, 14225, 14275, 14375, 14425, 14575, 14725, 14875, 15025, 15075, 15175, 15225, 15325,
    15375, 15475, 15525, 15675, 15825, 15975, 16125, 16275, 16325, 16425, 16475, 16575, 16625, 16725,
    16775, 16875, 16925, 17075, 17225, 17375, 17525, 17575, 17675, 17725, 17825, 17875, 17975, 18025,
    18175, 18325, 18475, 18625, 18775, 18825, 18925, 18975, 19075, 19125, 19225, 19275, 19375, 19425,
    19575, 19725, 19875, 20025, 20075, 20175, 20225, 20325, 20375, 20475, 20525, 20675, 20825, 20975,
    21125, 21275, 21325, 21425, 21475, 21575, 21625, 21725, 21775, 21875, 21925, 22075, 22225, 22375,
    22525, 22575, 22675, 22725, 22825, 22875, 22975, 23025, 23175, 23325, 23475, 23625, 23775, 23825,
    23925, 23975, 24075, 24125, 24225, 24275, 24375, 24425, 24575, 24725, 24875, 25025, 25075, 25175,
    25225, 25325, 25375, 25475, 25525, 25675, 25825, 25975, 26275, 26325, 26375, 26575, 26625, 26675,
    26875, 26925, 26975, 27025, 27225, 27275, 27325, 27525, 27575, 27625, 27825, 27875, 27925, 28175,
    28225, 28275, 28475, 28525, 28575, 28775, 28825, 28875, 29075, 29125, 29175, 29375, 29425, 29475,
    29525, 29725, 29775, 29825, 30025, 30075, 30125, 30325, 30375, 30425, 30675, 30725, 30775, 30975,
    31025, 31075, 31275, 31325, 31375, 31575, 31625, 31675, 31875, 31925, 31975, 32025, 32225, 32275,
    32325, 32525, 32575, 32625, 32825, 32875, 32925, 33175, 33225, 33275, 33475, 33525, 33575, 33775,
    33825, 33875, 34075, 34125, 34175, 34375, 34425, 34475, 34525, 34725, 34775, 34825, 35025, 35075,
    35125, 35325, 35375, 35425, 35675, 35725, 35775, 35975, 36025, 36075, 36275, 36325, 36375, 36575,
    36625, 36675, 36875, 36925, 36975, 37025, 37225, 37275, 37325, 37525, 37575, 37625, 37825, 37875,
    37925, 38175, 38225, 38275, 38475, 38525, 38575, 38775, 38825, 38875, 39075, 39125, 39175, 39375,
    39425, 39475, 39525, 39725, 39775, 39825, 40025, 40075, 40125, 40325, 40375, 40425, 40675, 40725,
    40775, 40975, 41025, 41075, 41275, 41325, 41375, 41575, 41625, 41675, 41875, 41925, 41975, 42025,
    42225, 42275, 42325, 42525, 42575, 42625, 42825, 42875, 42925, 43175, 43225, 43275, 43475, 43525,
    43575, 43775, 43825, 43875, 44075, 44125, 44175, 44375, 44425, 44475, 44525, 44725, 44775, 44825,
    45025, 45075, 45125, 45325, 45375, 45425, 45675, 45725, 45775, 45975, 46025, 46075, 46275, 46325,
    46375, 46575, 46625, 46675, 46875, 46925, 46975, 47025, 47225, 47275, 47325, 47525, 47575, 47625,
    47825, 47875, 47925, 48175, 48225, 48275, 48475, 48525, 48575, 48775, 48825, 48875, 49075, 49125,
    49175, 49375, 49425, 49475, 49525, 49725, 49775, 49825, 50025, 50075, 50125, 50325, 50375, 50425,
    50675, 50725, 50775, 50975, 51025, 51075, 51275, 51325, 51375, 51575, 51625, 51675, 51875, 51925,
    51975, 52025, 52225, 52525, 52575, 52625, 52675, 52725, 52775, 53175, 53225, 53275, 53325, 53375,
    53425, 53775, 53825, 53875, 53925, 53975, 54025, 54375, 54425, 54475, 54525, 54575, 54625, 54675,
    55025, 55075, 55125, 55175, 55225, 55275, 55675, 55725, 55775, 55825, 55875, 55925, 56275, 56325,
    56375, 56425, 56475, 56525, 56875, 56925, 56975, 57025, 57075, 57125, 57175, 57525, 57575, 57625,
    57675, 57725, 57775, 58175, 58225, 58275, 58325, 58375, 58425, 58775, 58825, 58875, 58925, 58975,
    59025, 59375, 59425, 59475, 59525, 59575, 59625, 59675, 60025, 60075, 60125, 60175, 60225, 60275,
    60675, 60725, 60775, 60825, 60875, 60925, 61275, 61325, 61375, 61425, 61475, 61525, 61875, 61925,
    61975, 62025, 62075, 62125, 62175, 62525, 62575, 62625, 62675, 62725, 62775, 63175, 63225, 63275,
    63325, 63375, 63425, 63775, 63825, 63875, 63925, 63975, 64025, 64375, 64425, 64475, 64525, 64575,
    64625, 64675, 65025, 65075, 65125, 65175, 65225, 65275, 65675, 65725, 65775, 65825, 65875, 65925,
    66275, 66325, 66375, 66425, 66475, 66525, 66875, 66925, 66975, 67025, 67075, 67125, 67175, 67525,
    67575, 67625, 67675, 67725, 67775, 68175, 68225, 68275, 68325, 68375, 68425, 68775, 68825, 68875,
    68925, 68975, 69025, 69375, 69425, 69475, 69525, 69575, 69625, 69675, 70025, 70075, 70125, 70175,
    70225, 70275, 70675, 70725, 70775, 70825, 70875, 70925, 71275, 71325, 71375, 71425, 71475, 71525,
    71875, 71925, 71975, 72025, 72075, 72125, 72175, 72525, 72575, 72625, 72675, 72725, 72775, 73175,
    73225, 73275, 73325, 73375, 73425, 73775, 73825, 73875, 73925, 73975, 74025, 74375, 74425, 74475,
    74525, 74575, 74625, 74675, 75025, 75075, 75125, 75175, 75225, 75275, 75675, 75725, 75775, 75825,
    75875, 75925, 76275, 76325, 76375, 76425, 76475, 76525, 76875, 76925, 76975, 77025, 77075, 77125,
    77175, 77525, 77575, 77625, 77675, 77725, 77775, 78175, 78225, 78275, 78325, 78375, 78425, 78775,
    78825, 78875, 78925, 78975, 79025, 79375, 79425, 79475, 79525, 79575, 79625, 79675, 80025, 80075,
    80125, 80175, 80225, 80275, 80675, 80725, 80775, 80825, 80875, 80925, 81275, 81325, 81375, 81425,
    81475, 81525, 81875, 81925, 81975, 82025, 82075, 82125, 82175, 82525, 82575, 82625, 82675, 82725,
    82775, 83175, 83225, 83275, 83325, 83375, 83425, 83775, 83825, 83875, 83925, 83975, 84025, 84375,
    84425, 84475, 84525, 84575, 84625, 84675, 85025, 85075, 85125, 85175, 85225, 85275, 85675, 85725,
    85775, 85825, 85875, 85925, 86275, 86325, 86375, 86425, 86475, 86525, 86875, 86925, 86975, 87025,
    87075, 87125, 87175, 87525, 87575, 87625, 87675, 87725, 87775, 88175, 88225, 88275, 88325, 88375,
    88425, 88775, 88825, 88875, 88925, 88975, 89025, 89375, 89425, 89475, 89525, 89575, 89625, 89675
  }

\* faulty variant of NewPrice: the penalty is added, new_price = original_price + penalty
NewPriceAdded(original_price) == (102 * original_price + 50) \div 100

\* penalty = original_price * 0.02; new_price = original_price - penalty;
\* then the .2f rounding of new_price: hundredths in, hundredths out
NewPrice(original_price) ==
  LET exact == 98 * original_price      \* new_price in 1/10000
      q == exact \div 100
      r == exact % 100
  IN  IF r > 50 \/ (r = 50 /\ original_price \in HalfCentRoundsUp) THEN q + 1 ELSE q

\* dict.get(key, default)
DictGet(d, key, default) == IF key \in DOMAIN d THEN d[key] ELSE default

-----------------------------------------------------------------------------
(* Dates *)

IsLeap(y) == (y % 4 = 0) /\ ((y % 100 # 0) \/ (y % 400 = 0))

DaysInMonth(y, m) ==
  IF m = 2 THEN (IF IsLeap(y) THEN 29 ELSE 28)
  ELSE IF m \in {4, 6, 9, 11} THEN 30 ELSE 31

RECURSIVE DaysBeforeMonth(_, _)
DaysBeforeMonth(y, m) ==
  IF m = 1 THEN 0 ELSE DaysBeforeMonth(y, m - 1) + DaysInMonth(y, m - 1)

\* date(y, m, d).toordinal()
ToOrdinal(y, m, d) ==
  365 * (y - 1) + ((y - 1) \div 4) - ((y - 1) \div 100) + ((y - 1) \div 400)
    + DaysBeforeMonth(y, m) + d

\* strptime(s, "%d/%m/%y") accepts the fields <<d, m, yy>>
DateOk(s) ==
  /\ s[3] \in 0..99
  /\ s[2] \in 1..12
  /\ s[1] \in 1..DaysInMonth((IF s[3] <= 68 THEN 2000 ELSE 1900) + s[3], s[2])

\* strptime(s, "%d/%m/%y").date(), as an ordinal; %y puts 00..68 in 2000..2068
strptime(s) == ToOrdinal((IF s[3] <= 68 THEN 2000 ELSE 1900) + s[3], s[2], s[1])

\* the absent ship date (dict.get returns None)
NoDate == <<>>

\* the first day of the clock: 11 February 2025, nine days after the earliest ship date
StartDay == ToOrdinal(2025, 2, 11)

-----------------------------------------------------------------------------
(* The store *)

Store == [order_statuses |-> order_statuses, order_price |-> order_price,
          order_shipped |-> order_shipped, original_prices |-> original_prices]

Returned(value) == [exc |-> "none", value |-> value]

Raised(exc) == [exc |-> exc, value |-> <<>>]

Call(op, order_id, reason) == [op |-> op, order_id |-> order_id, reason |-> reason]

\* no call has been made yet on this day
Idle == Call("none", "", "")

\* OrderStatusManager.__init__
Init ==
  /\ order_statuses = [id \in SeededIds |->
        IF id = "12345" THEN "Shipped"
        ELSE IF id = "67890" THEN "Processing" ELSE "Delivered"]
  /\ order_price = [id \in SeededIds |->
        IF id = "12345" THEN <<"5", "0", "0", "$">>
        ELSE IF id = "67890" THEN <<"7", "9", "$">> ELSE <<"9", "0", "0", "$">>]
  /\ order_shipped = [id \in SeededIds |->
        IF id = "12345" THEN <<22, 2, 25>>
        ELSE IF id = "67890" THEN <<24, 2, 25>> ELSE <<2, 2, 25>>]
  /\ original_prices = order_price
  /\ today = StartDay
  /\ last_call = Idle
  /\ result = Returned(<<>>)
  /\ before = Store
  /\ returns = [id \in SeededIds |-> 0]

\* what every call records about itself
Record(op, order_id, reason) ==
  /\ last_call' = Call(op, order_id, reason)
  /\ before' = Store

get_total_price(order_id) ==
  /\ Record("get_total_price", order_id, "")
  /\ result' = Returned(DictGet(order_price, order_id, <<"total sum price">>))
  /\ UNCHANGED <<order_statuses, order_price, order_shipped, original_prices, today, returns>>

\* faulty variant of get_order_status: setdefault for get, which stores the default
get_order_status_setdefault(order_id) ==
  /\ Record("get_order_status", order_id, "")
  /\ result' = Returned(<<DictGet(order_statuses, order_id, "Order ID not found.")>>)
  /\ order_statuses' = [id \in DOMAIN order_statuses \cup {order_id} |->
         DictGet(order_statuses, id, "Order ID not found.")]
  /\ UNCHANGED <<order_price, order_shipped, original_prices, today, returns>>

get_order_status(order_id) ==
  /\ Record("get_order_status", order_id, "")
  /\ result' = Returned(<<DictGet(order_statuses, order_id, "Order ID not found.")>>)
  /\ UNCHANGED <<order_statuses, order_price, order_shipped, original_prices, today, returns>>

\* days_since_shipped of initiate_return
DaysSinceShipped(order_id) == today - strptime(order_shipped[order_id])

\* faulty variant of WindowPassed: the difference is taken the wrong way round
WindowPassedSwapped(order_id) ==
  /\ DictGet(order_shipped, order_id, NoDate) # NoDate
  /\ strptime(order_shipped[order_id]) - today > ReturnWindowDays

\* faulty variant of WindowPassed: the tenth day is already too late (>= for >)
WindowPassedInclusive(order_id) ==
  /\ DictGet(order_shipped, order_id, NoDate) # NoDate
  /\ today - strptime(order_shipped[order_id]) >= ReturnWindowDays

\* the shipping date of the order is present and more than the window ago
WindowPassed(order_id) ==
  /\ DictGet(order_shipped, order_id, NoDate) # NoDate
  /\ DaysSinceShipped(order_id) > ReturnWindowDays

\* faulty variant of PenaltyBase: the penalty is taken from the price at construction
PenaltyBaseOriginal(order_id) == original_prices[order_id]

\* the string the penalty is computed from: self.order_price[order_id]
PenaltyBase(order_id) == order_price[order_id]

initiate_return(order_id, reason) ==
  /\ Record("initiate_return", order_id, reason)
  /\ UNCHANGED <<order_shipped, original_prices, today>>
  /\ IF order_id \notin ReturnableIds
     THEN /\ result' = Returned(<<"Order ID not found. Cannot initiate return.">>)
          /\ UNCHANGED <<order_statuses, order_price, returns>>
     ELSE IF DictGet(order_shipped, order_id, NoDate) # NoDate
             /\ ~DateOk(order_shipped[order_id])
     THEN /\ result' = Raised("ValueError")
          /\ UNCHANGED <<order_statuses, order_price, returns>>
     ELSE IF WindowPassed(order_id)
     THEN /\ result' = Returned(<<"Return cannot be initiated for order ", order_id,
                                  " as it has been", " more than 10 days since shipping.">>)
          /\ UNCHANGED <<order_statuses, order_price, returns>>
     ELSE IF order_id \notin DOMAIN order_price
     THEN /\ order_statuses' = [id \in DOMAIN order_statuses \cup {order_id} |->
                 IF id = order_id THEN "Return Initiated" ELSE order_statuses[id]]
          /\ result' = Raised("KeyError")
          /\ UNCHANGED <<order_price, returns>>
     ELSE IF ~FloatOk(rstrip(PenaltyBase(order_id), "$"))
     THEN /\ order_statuses' = [id \in DOMAIN order_statuses \cup {order_id} |->
                 IF id = order_id THEN "Return Initiated" ELSE order_statuses[id]]
          /\ result' = Raised("ValueError")
          /\ UNCHANGED <<order_price, returns>>
     ELSE LET original_price == ToFloat(rstrip(PenaltyBase(order_id), "$"))
              new_price == NewPrice(original_price)
          IN  /\ order_statuses' = [id \in DOMAIN order_statuses \cup {order_id} |->
                     IF id = order_id THEN "Return Initiated" ELSE order_statuses[id]]
              /\ order_price' = [order_price EXCEPT ![order_id] = FormatPrice(new_price)]
              /\ result' = Returned(
                     <<"Return initiated for order ", order_id, " due to: ", reason,
                       ". Price after", " penalty is ">>
                     \o FormatPrice(new_price) \o <<".">>)
              /\ returns' = [returns EXCEPT ![order_id] =
                     IF @ < MaxReturns THEN @ + 1 ELSE @]

\* faulty variant of InReturn: the status is not looked at
InReturnAny(order_id) == TRUE

\* the status test of cancel_return
InReturn(order_id) == order_statuses[order_id] = "Return Initiated"

\* faulty variant of RestoredStatus: the entry is gone when it is read, so the default is taken
RestoredStatusDefault(order_id) == "Cancelled Order"

\* the status cancel_return writes: self.order_statuses.get(order_id, "Cancelled Order")
RestoredStatus(order_id) == DictGet(order_statuses, order_id, "Cancelled Order")

cancel_return(order_id, reason) ==
  /\ Record("cancel_return", order_id, reason)
  /\ UNCHANGED <<order_shipped, original_prices, today, returns>>
  /\ IF order_id \notin DOMAIN order_statuses
     THEN /\ result' = Returned(<<"Order ID not found. Cannot cancel return.">>)
          /\ UNCHANGED <<order_statuses, order_price>>
     ELSE IF ~InReturn(order_id)
     THEN /\ result' = Returned(<<"Order ", order_id,
                                  " is not in 'Return Initiated' status. Cannot",
                                  " cancel return.">>)
          /\ UNCHANGED <<order_statuses, order_price>>
     ELSE /\ order_statuses' = [order_statuses EXCEPT ![order_id] = RestoredStatus(order_id)]
          /\ order_price' = [id \in DOMAIN order_price \cup {order_id} |->
                 IF id = order_id THEN DictGet(order_price, order_id, <<"order_price">>)
                 ELSE order_price[id]]
          /\ result' = Returned(
                 <<"Return cancellation initiated for order ", order_id, " due to:",
                   " ", reason, ". Price reset to ">>
                 \o DictGet(order_price, order_id, <<"order_price">>) \o <<".">>)

\* the clock: datetime.date.today() moves on by a day; the narration of the last
\* call has been relayed and the next day starts with no call made
Tick ==
  /\ today < StartDay + MaxDays
  /\ today' = today + 1
  /\ last_call' = Idle
  /\ result' = Returned(<<>>)
  /\ before' = Store
  /\ UNCHANGED <<order_statuses, order_price, order_shipped, original_prices, returns>>

\* the call would be accepted and apply the penalty
Accepts(order_id) == order_id \in ReturnableIds /\ ~WindowPassed(order_id)

Next ==
  \/ \E order_id \in OrderIds : get_total_price(order_id)
  \/ \E order_id \in OrderIds : get_order_status(order_id)
  \/ \E order_id \in OrderIds, reason \in Reasons :
        /\ Accepts(order_id) => DictGet(returns, order_id, 0) < MaxReturns
        /\ initiate_return(order_id, reason)
  \/ \E order_id \in OrderIds, reason \in Reasons : cancel_return(order_id, reason)
  \/ Tick

Spec == Init /\ [][Next]_vars

\* A session that keeps working on one order on the first day: the same
\* operations with no bound on the number of returns, so that the price runs
\* down to where the penalty no longer changes it.
ChainNext ==
  \E order_id \in SeededIds, reason \in Reasons :
    /\ \A other \in SeededIds \ {order_id} : returns[other] = 0
    /\ \/ get_total_price(order_id)
       \/ get_order_status(order_id)
       \/ initiate_return(order_id, reason)
       \/ cancel_return(order_id, reason)

ChainSpec == Init /\ [][ChainNext]_vars

-----------------------------------------------------------------------------
(* Properties *)

\* a price string as a number of hundredths
Cents(s) == ToFloat(rstrip(s, "$"))

\* the ids the store holds
KnownIds == DOMAIN order_statuses

\* the replies the four operations give for an id the store does not hold
NotFoundReply(op) ==
  IF op = "get_total_price" THEN <<"total sum price">>
  ELSE IF op = "get_order_status" THEN <<"Order ID not found.">>
  ELSE IF op = "initiate_return" THEN <<"Order ID not found. Cannot initiate return.">>
  ELSE <<"Order ID not found. Cannot cancel return.">>

\* the narration of a return refused because the window has passed
WindowReply(id) ==
  <<"Return cannot be initiated for order ", id, " as it has been",
    " more than 10 days since shipping.">>

\* the narration of an accepted return
AcceptedReply(id, reason, price) ==
  <<"Return initiated for order ", id, " due to: ", reason, ". Price after", " penalty is ">>
    \o price \o <<".">>

\* the narration of a cancellation refused because no return is under way
NotInReturnReply(id) ==
  <<"Order ", id, " is not in 'Return Initiated' status. Cannot", " cancel return.">>

\* the narration of an accepted cancellation
CancelledReply(id, reason, price) ==
  <<"Return cancellation initiated for order ", id, " due to:", " ", reason,
    ". Price reset to ">> \o price \o <<".">>

\* the last call was initiate_return on id and it was accepted
AcceptedReturn(id) ==
  /\ last_call.op = "initiate_return"
  /\ last_call.order_id = id
  /\ result = Returned(AcceptedReply(id, last_call.reason, order_price[id]))

\* days between the ship date of id and the day of the last call
DaysAtCall(id) == today - strptime(before.order_shipped[id])

\* C1: a call of any of the four operations with an order id that is not in the
\* store returns that operation's not-found reply, which is no price and no
\* status of an order of the store, and leaves the statuses, the prices, the
\* ship dates and the original prices of all orders as they were.
C1_UnknownIdNotFound ==
  (last_call.op # "none" /\ last_call.order_id \notin DOMAIN before.order_statuses) =>
    /\ result = Returned(NotFoundReply(last_call.op))
    /\ \A id \in KnownIds :
          result.value # order_price[id] /\ result.value # <<order_statuses[id]>>
    /\ Store = before

C1_Witness ==
  /\ last_call.op = "initiate_return"
  /\ last_call.order_id = "99999"
  /\ result = Returned(NotFoundReply("initiate_return"))
  /\ \E id \in KnownIds : order_statuses[id] = "Return Initiated"

\* C2: initiate_return on a known order whose ship date is more than 10 days
\* before the day of the call is refused with the explanatory narration, and the
\* order's status and price are what they were before the call, whatever the
\* status was.
C2_WindowPassedRejected ==
  \A id \in DOMAIN before.order_statuses :
    ( /\ last_call.op = "initiate_return"
      /\ last_call.order_id = id
      /\ DictGet(before.order_shipped, id, NoDate) # NoDate
      /\ DaysAtCall(id) > 10 ) =>
        /\ result = Returned(WindowReply(id))
        /\ order_statuses[id] = before.order_statuses[id]
        /\ order_price[id] = before.order_price[id]

C2_Witness ==
  /\ last_call.op = "initiate_return"
  /\ last_call.order_id = "12345"
  /\ DaysAtCall("12345") = 11
  /\ result = Returned(WindowReply("12345"))
  /\ order_statuses["12345"] = "Return Initiated"
  /\ order_price["12345"] # original_prices["12345"]

\* C3: initiate_return on a known order whose ship date is absent or at most 10
\* days before the day of the call (the tenth day included) sets the status to
\* Return Initiated, sets the price to 0.98 times the price before the call
\* rounded to the nearest hundredth and written with two decimals (79$ becomes
\* 77.42$), and returns the narration that reports the new price.
C3_ReturnAccepted ==
  \A id \in DOMAIN before.order_statuses :
    ( /\ last_call.op = "initiate_return"
      /\ last_call.order_id = id
      /\ \/ DictGet(before.order_shipped, id, NoDate) = NoDate
         \/ DaysAtCall(id) <= 10 ) =>
        /\ order_statuses[id] = "Return Initiated"
        /\ (100 * Cents(order_price[id]) - 98 * Cents(before.order_price[id])) \in -50..50
        /\ Len(FracPart(rstrip(order_price[id], "$"))) = 2
        /\ order_price[id][Len(order_price[id])] = "$"
        /\ (before.order_price[id] = <<"7", "9", "$">>
              => order_price[id] = <<"7", "7", ".", "4", "2", "$">>)
        /\ result = Returned(AcceptedReply(id, last_call.reason, order_price[id]))

C3_Witness ==
  /\ AcceptedReturn("67890")
  /\ DaysAtCall("67890") = 10
  /\ before.order_price["67890"] = <<"7", "9", "$">>
  /\ order_price["67890"] = <<"7", "7", ".", "4", "2", "$">>

\* C4: cancel_return on a known order whose status is not Return Initiated is
\* refused with the explanatory narration and changes no order's status or price.
C4_CancelRejected ==
  \A id \in DOMAIN before.order_statuses :
    ( /\ last_call.op = "cancel_return"
      /\ last_call.order_id = id
      /\ before.order_statuses[id] # "Return Initiated" ) =>
        /\ result = Returned(NotInReturnReply(id))
        /\ order_statuses = before.order_statuses
        /\ order_price = before.order_price

C4_Witness ==
  /\ last_call.op = "cancel_return"
  /\ last_call.order_id = "11223"
  /\ order_statuses["11223"] = "Delivered"
  /\ result = Returned(NotInReturnReply("11223"))
  /\ order_statuses["67890"] = "Return Initiated"

\* C5: cancel_return called right after an accepted initiate_return on the same
\* order puts the order's price and status back to what they were before the
\* initiate_return.
C5_CancelRestores ==
  [][ \A id \in KnownIds :
        ( /\ AcceptedReturn(id)
          /\ last_call'.op = "cancel_return"
          /\ last_call'.order_id = id
          /\ today' = today ) =>
            /\ order_price'[id] = before.order_price[id]
            /\ order_statuses'[id] = before.order_statuses[id] ]_vars

\* C6: every order's price is at most the price it was seeded with.
C6_PriceAtMostOriginal ==
  \A id \in KnownIds : Cents(order_price[id]) <= Cents(original_prices[id])

C6_Witness ==
  /\ last_call.op = "cancel_return"
  /\ last_call.order_id \in KnownIds
  /\ result = Returned(CancelledReply(last_call.order_id, last_call.reason,
                                      order_price[last_call.order_id]))
  /\ returns[last_call.order_id] = MaxReturns
  /\ Cents(order_price[last_call.order_id]) < Cents(original_prices[last_call.order_id])

\* C7: every call returns: no exception is raised, and what is returned is a
\* string that is not empty.
C7_ReturnsNarration ==
  last_call.op # "none" =>
    /\ result.exc = "none"
    /\ \E i \in 1..Len(result.value) : result.value[i] # ""

C7_Witness ==
  /\ last_call.op = "initiate_return"
  /\ last_call.order_id \in KnownIds
  /\ last_call.reason = ""
  /\ returns[last_call.order_id] = MaxReturns
  /\ result = Returned(AcceptedReply(last_call.order_id, "", order_price[last_call.order_id]))

\* C8 as stated: an accepted initiate_return on an order that is already in
\* Return Initiated and was shipped at most 10 days ago computes the price from
\* the discounted price (0.98 times it, to the nearest hundredth), and the new
\* price differs from the discounted one.
C8_SecondReturnCompounds ==
  \A id \in KnownIds :
    ( /\ AcceptedReturn(id)
      /\ before.order_statuses[id] = "Return Initiated"
      /\ DaysAtCall(id) \in 0..10 ) =>
      /\ (100 * Cents(order_price[id]) - 98 * Cents(before.order_price[id])) \in -50..50
      /\ order_price[id] # before.order_price[id]

\* C8 as amended: the same, but the new price differs from the discounted one
\* only while the discounted price is 0.25$ or more; from 0.24$ down the
\* penalty is less than half a cent and the rounding gives the same price back.
C8_SecondReturnCompoundsAboveFloor ==
  \A id \in KnownIds :
    (AcceptedReturn(id) /\ before.order_statuses[id] = "Return Initiated") =>
      /\ (100 * Cents(order_price[id]) - 98 * Cents(before.order_price[id])) \in -50..50
      /\ Cents(before.order_price[id]) >= 25 =>
           Cents(order_price[id]) < Cents(before.order_price[id])
      /\ Cents(before.order_price[id]) < 25 => order_price[id] = before.order_price[id]

C8_Witness ==
  /\ AcceptedReturn("11223")
  /\ before.order_statuses["11223"] = "Return Initiated"
  /\ before.order_price["11223"] = <<"8", "8", "2", ".", "0", "0", "$">>
  /\ order_price["11223"] = <<"8", "6", "4", ".", "3", "6", "$">>

C10_Frame ==
  last_call.op # "none" =>
    /\ DOMAIN order_statuses = DOMAIN before.order_statuses
    /\ DOMAIN order_price = DOMAIN before.order_price
    /\ \A b \in DOMAIN before.order_statuses \ {last_call.order_id} :
          /\ order_statuses[b] = before.order_statuses[b]
          /\ order_price[b] = before.order_price[b]
    /\ order_shipped = before.order_shipped
    /\ original_prices = before.original_prices
    /\ last_call.op \in {"get_order_status", "get_total_price"} => Store = before

C10_Witness ==
  /\ AcceptedReturn("67890")
  /\ order_statuses["12345"] = "Return Initiated"
  /\ order_price["12345"] # original_prices["12345"]
  /\ order_statuses["11223"] = "Delivered"

====
